---- MODULE Spec2Model ----
(***************************************************************************)
(* Model of AdvTurtle/_internal/core.py: the per-turtle command queue,     *)
(* the frame update (Screen.update -> Turtle._update, Turtle._render),     *)
(* the path commit and the undo/redo stacks.                               *)
(*                                                                         *)
(* Numbers.  Python floats are modelled by exact integer arithmetic:       *)
(* every length is held in thousandths of a canvas unit (Unit), so that    *)
(* speed * (dt / 1000) canvas units is the integer speed * dt.  The model  *)
(* keeps every move parallel to an axis (headings are multiples of 90      *)
(* degrees); Abs and Towards are defined on axis-parallel vectors only.    *)
(* The glyph (figure) is None as in Turtle(), so the rotation cache of     *)
(* _start_command is never touched; the display surface, repainted by      *)
(* every frame, is not kept.                                               *)
(* SpecNav alone runs Navigator._update in binary floating point, rounded  *)
(* to nearest-even as Python's floats are, with a significand of Precision *)
(* bits in place of 53.                                                    *)
(***************************************************************************)
EXTENDS Integers, Sequences, FiniteSets, TLC

\* ------------------------------------------------------------------ bounds
MaxCalls == 2        \* queueing calls made in one run of Spec
MaxPoints == 5       \* frames stop once the last live segment holds this many
MaxUndoStack == 2    \* Turtle(undo_stack = 0 .. MaxUndoStack)
UndoCalls == 2       \* queueing calls made in one run of SpecUndo
ForwardCalls == 2    \* queueing calls made in one run of SpecForward
PairCalls == 2       \* queueing calls made in one run of SpecPair
CircleCalls == 2     \* queueing calls made in one run of SpecCircle
StallCalls == 3      \* queueing calls made in one run of SpecStall
TolCalls == 3        \* queueing calls made in one run of SpecTol
ProgressCalls == 2   \* queueing calls made in one run of SpecProgress
Precision == 8       \* bits of a float's significand in SpecNav (Python: 53)
FracBits == 10       \* a float of SpecNav is a multiple of 2^-FracBits
MaxCoord == 4        \* positions of SpecNav start on the grid 0 .. MaxCoord

\* --------------------------------------------------------------- constants
Unit == 1000                     \* thousandths per canvas unit
ScreenWidth == 800
ScreenHeight == 600
DefaultSpeed == 50
DefaultSize == 2

CMD_NAVIGATOR_FORWARD == 0
CMD_NAVIGATOR_GOTO == 1
CMD_NAVIGATOR_TELEPORT == 2
CMD_NAVIGATOR_LEFT == 3
CMD_NAVIGATOR_RIGHT == 4
CMD_NAVIGATOR_HOME == 5
CMD_NAVIGATOR_SETX == 6
CMD_NAVIGATOR_SETY == 7
CMD_NAVIGATOR_SET_HEADING == 8
CMD_NAVIGATOR_HEAD_TOWARDS == 9
CMD_PEN_HIDE == 10
CMD_PEN_SHOW == 11
CMD_PEN_PENUP == 12
CMD_PEN_PENDOWN == 13
CMD_PEN_SET_SIZE == 14
CMD_PEN_SET_SPEED == 15
CMD_PEN_SET_COLOR == 16
\* the two bound functions that are queued as callables, not as table indexes
FUNC_TURTLE_CLEAR == 100
FUNC_TURTLE_DOT == 101

Turtles == {1, 2}                \* Screen._turtles, in registration order

\* ------------------------------------------------------------------ Vec2D
Vec2D(x, y) == <<x, y>>
VecAdd(a, b) == <<a[1] + b[1], a[2] + b[2]>>
VecSub(a, b) == <<a[1] - b[1], a[2] - b[2]>>
IAbs(n) == IF n < 0 THEN -n ELSE n
Min(a, b) == IF a <= b THEN a ELSE b
Max(a, b) == IF a >= b THEN a ELSE b

\* math.hypot(*v), for a vector parallel to an axis
VecAbs(v) ==
  CASE v[2] = 0 -> IAbs(v[1])
    [] v[1] = 0 -> IAbs(v[2])

\* math.cos / math.sin of a heading that is a multiple of 90 degrees
Cos(h) ==
  CASE h % 360 = 0 -> 1
    [] h % 360 = 90 -> 0
    [] h % 360 = 180 -> -1
    [] h % 360 = 270 -> 0
Sin(h) ==
  CASE h % 360 = 0 -> 0
    [] h % 360 = 90 -> 1
    [] h % 360 = 180 -> 0
    [] h % 360 = 270 -> -1

\* math.degrees(math.atan2(-dy, dx)) % 360.0 of Navigator.towards, for an
\* axis-parallel (dx, dy); atan2(-0.0, 0.0) % 360.0 is 0.0
Bearing(d) ==
  CASE d[2] = 0 /\ d[1] >= 0 -> 0
    [] d[2] = 0 /\ d[1] < 0 -> 180
    [] d[1] = 0 /\ d[2] < 0 -> 90
    [] d[1] = 0 /\ d[2] > 0 -> 270

\* --------------------------------------------------------------- commands
\* A queued tuple (func_id, *args).  seq names the tuple object: the n-th
\* tuple made for a turtle has seq n (0 until the step that made it ends).  An argument is a literal number or a
\* _QueuedArgument made by queue(lambda: turtle.position[0]); lid names the
\* _QueuedArgument object, v the turtle it reads.  Lengths and coordinates
\* are in thousandths of a canvas unit, speeds in canvas units per second.
Lit(n) == [k |-> "lit", v |-> n, lid |-> 0]
Queued(src, lid) == [k |-> "queued", v |-> src, lid |-> lid]
Command(id, args) == [id |-> id, args |-> args, seq |-> 0]

NoError == "none"

\* Turtle.__init__(figure=None, undo_stack=depth, visible=True)
TurtleInit(depth) ==
  LET start == Vec2D((ScreenWidth * Unit) \div 2, (ScreenHeight * Unit) \div 2)
  IN [origin |-> start, target_pos |-> start, render_pos |-> start,
      heading |-> 0, speed |-> DefaultSpeed, color |-> <<0, 0, 0>>,
      size |-> DefaultSize, path |-> << <<>> >>, undo_stack |-> depth,
      redo_path |-> <<>>, redo_command |-> <<>>, canvas |-> {},
      pen_down |-> TRUE, visible |-> TRUE,
      command_queue |-> <<>>, current_command |-> <<>>,
      \* the exception the last call on this turtle raised
      raised |-> NoError,
      \* history: the command tuples made for this turtle so far, every
      \* command started, every evaluation of a _QueuedArgument as [lid, val]
      made |-> 0, started |-> <<>>, evals |-> <<>>,
      \* history: the penup commands executed so far, and every point marked
      \* as <<point, penups executed when it was marked>>
      penups |-> 0, marks |-> {}]

\* ------------------------------------------------------------- Navigator
Navigator_towards(s, x, y) == Bearing(VecSub(Vec2D(x, y), s.render_pos))

\* a forward that starts from where the turtle is drawn
ForwardFromRender(s, distance) ==
  LET dx == distance * Cos(s.heading)
      dy == -(distance * Sin(s.heading))
  IN [s EXCEPT !.target_pos = Vec2D(s.render_pos[1] + dx, s.render_pos[2] + dy)]

Navigator_forward(s, distance) ==
  LET dx == distance * Cos(s.heading)
      dy == -(distance * Sin(s.heading))
  IN [s EXCEPT !.target_pos = Vec2D(s.target_pos[1] + dx, s.target_pos[2] + dy)]

Navigator_goto(s, x, y) ==
  [s EXCEPT !.target_pos = Vec2D(x, y), !.heading = Navigator_towards(s, x, y)]

Navigator_teleport(s, x, y) ==
  [s EXCEPT !.render_pos = Vec2D(x, y), !.target_pos = Vec2D(x, y)]

Navigator_left(s, angle) == [s EXCEPT !.heading = s.heading + angle]

Navigator_right(s, angle) == [s EXCEPT !.heading = s.heading - angle]

Navigator_set_heading(s, angle) == [s EXCEPT !.heading = angle]

Navigator_head_towards(s, x, y) == [s EXCEPT !.heading = Navigator_towards(s, x, y)]

\* Turtle.goto: self.goto(...) in home, setx and sety is this method, the
\* override of Navigator.goto, so the three queue a goto
Turtle_goto(s, x, y) ==
  [s EXCEPT !.command_queue =
     Append(s.command_queue, Command(CMD_NAVIGATOR_GOTO, <<x, y>>))]

Navigator_home(s) == Turtle_goto(s, Lit(s.origin[1]), Lit(s.origin[2]))

Navigator_setx(s, x) == Turtle_goto(s, Lit(x), Lit(s.render_pos[2]))

Navigator_sety(s, y) == Turtle_goto(s, Lit(s.render_pos[1]), Lit(y))

\* Navigator._update(dt): dtms is Screen.dt in milliseconds
\* an update that moves nothing
UpdateStandsStill(s, dtms) == s

\* an update that moves by a canvas unit at least, whatever the speed
UpdateAtLeastOneUnit(s, dtms) ==
  LET delta == VecSub(s.target_pos, s.render_pos)
      dist == VecAbs(delta)
      step == Min(Max(s.speed * dtms, Unit), dist)
      direction == Vec2D(delta[1] \div dist, delta[2] \div dist)
  IN IF dist = 0 THEN s
     ELSE [s EXCEPT !.render_pos = Vec2D(s.render_pos[1] + direction[1] * step,
                                         s.render_pos[2] + direction[2] * step)]

Navigator__update(s, dtms) ==
  LET delta == VecSub(s.target_pos, s.render_pos)
      dist == VecAbs(delta)
      step == Min(s.speed * dtms, dist)
      direction == Vec2D(delta[1] \div dist, delta[2] \div dist)
  IN IF dist = 0 THEN s
     ELSE [s EXCEPT !.render_pos = Vec2D(s.render_pos[1] + direction[1] * step,
                                         s.render_pos[2] + direction[2] * step)]

\* Floating point.  Python's float rounds every result to the nearest number
\* with a 53 bit significand, ties to even.  The floats below do the same
\* with Precision bits; a float is held as the integer number of the
\* 2^-FracBits it is worth (the spacing of the smallest floats).
RECURSIVE Pow2(_)
Pow2(n) == IF n = 0 THEN 1 ELSE 2 * Pow2(n - 1)

One == Pow2(FracBits)

\* the spacing of the floats around q >= 0
RECURSIVE Spacing(_)
Spacing(q) == IF q < Pow2(Precision) THEN 1 ELSE 2 * Spacing(q \div 2)

\* n / m >= 0 rounded to the nearest integer, ties to even
RoundHalfEven(n, m) ==
  LET q == n \div m
      r == n % m
  IN IF 2 * r > m \/ (2 * r = m /\ q % 2 = 1) THEN q + 1 ELSE q

\* the float nearest to n / d, d > 0
RoundFloat(n, d) ==
  LET a == IAbs(n)
      sp == Spacing(a \div d)
      r == sp * RoundHalfEven(a, d * sp)
  IN IF n < 0 THEN -r ELSE r

FAdd(a, b) == RoundFloat(a + b, 1)
FSub(a, b) == RoundFloat(a - b, 1)
FMul(a, b) == RoundFloat(a * b, One)
FDiv(a, b) == IF b < 0 THEN RoundFloat(-(a * One), -b) ELSE RoundFloat(a * One, b)

\* the integer part of the square root of n >= 0
RECURSIVE ISqrt(_)
ISqrt(n) ==
  IF n < 2 THEN n
  ELSE LET r == 2 * ISqrt(n \div 4)
       IN IF (r + 1) * (r + 1) <= n THEN r + 1 ELSE r

\* math.hypot(a, b): the float nearest to the square root of a^2 + b^2
FHypot(a, b) ==
  LET n == a * a + b * b
      sp == Spacing(ISqrt(n))
      lo == sp * (ISqrt(n) \div sp)
      mid2 == (2 * lo + sp) * (2 * lo + sp)
  IN IF 4 * n < mid2 \/ (4 * n = mid2 /\ (lo \div sp) % 2 = 0) THEN lo ELSE lo + sp

\* Navigator._update(dt) in floats: n is a Navigator, its positions, its
\* speed and dt are floats
FloatUpdate(n, dtf) ==
  LET delta == Vec2D(FSub(n.target_pos[1], n.render_pos[1]),
                     FSub(n.target_pos[2], n.render_pos[2]))
      dist == FHypot(delta[1], delta[2])
      step == Min(FMul(n.speed, dtf), dist)
      direction == Vec2D(FDiv(delta[1], dist), FDiv(delta[2], dist))
  IN IF dist = 0 THEN n
     ELSE [n EXCEPT !.render_pos =
             Vec2D(FAdd(n.render_pos[1], FMul(direction[1], step)),
                   FAdd(n.render_pos[2], FMul(direction[2], step)))]

\* ------------------------------------------------------------------- Pen
Pen_set_size(s, size) == [s EXCEPT !.size = size]

Pen_set_speed(s, speed) == [s EXCEPT !.speed = speed]

\* Pen.set_color(*args): args is the tuple of colour arguments
Pen_set_color(s, args) ==
  IF Len(args) = 0 THEN [s EXCEPT !.raised = "ValueError"]
  ELSE [s EXCEPT !.color = args]

Pen_hide(s) == [s EXCEPT !.visible = FALSE]

Pen_show(s) == [s EXCEPT !.visible = TRUE]

Pen_pendown(s) == [s EXCEPT !.pen_down = TRUE]

Pen__new_path(s) == [s EXCEPT !.path = Append(s.path, <<>>)]

Pen__mark(s) ==
  LET p == IF s.path = <<>> THEN << <<>> >> ELSE s.path
  IN [s EXCEPT !.path = [p EXCEPT ![Len(p)] = Append(p[Len(p)], s.render_pos)]]

\* ------------------------------------------------------- Turtle._commit
\* list.pop(i) / del list[i], with i counted from 0
RemoveAt(seq, i) == SubSeq(seq, 1, i) \o SubSeq(seq, i + 2, Len(seq))

\* segment[:-n] of Python: segment[:0] when n = 0
SliceBeforeLast(segment, n) ==
  IF n = 0 THEN <<>> ELSE SubSeq(segment, 1, Len(segment) - n)

\* the loop "for j, pos in enumerate(path.copy())" of _commit on the live
\* segment seg: del seg[j] for every j < limit, stopping at an IndexError
RECURSIVE DeleteDrawn(_, _, _)
DeleteDrawn(seg, j, limit) ==
  IF j >= limit THEN [seg |-> seg, raised |-> NoError]
  ELSE IF j >= Len(seg) THEN [seg |-> seg, raised |-> "IndexError"]
  ELSE DeleteDrawn(RemoveAt(seg, j), j + 1, limit)

\* One turn of the loop over the segments: i counts from 0, segment is the
\* i-th segment of the path as it was when _commit was entered.
CommitSegment(s, i, segment, last_segment, onCanvas, using_undo_stack, permanent) ==
  LET popIt == ~permanent /\ i # last_segment
      popFails == popIt /\ i >= Len(s.path)
      s1 == IF popIt /\ ~popFails THEN [s EXCEPT !.path = RemoveAt(s.path, i)] ELSE s
      path == IF using_undo_stack \/ i # last_segment THEN segment
              ELSE SliceBeforeLast(segment, s.undo_stack)
      path_length == Len(path)
      deleting == permanent /\ i = last_segment
      del == DeleteDrawn(s1.path[i + 1], 0, Max(0, Min(path_length, path_length - 2)))
      s2 == IF deleting THEN [s1 EXCEPT !.path[i + 1] = del.seg, !.raised = del.raised]
            ELSE s1
  IN IF popFails THEN [s EXCEPT !.raised = "IndexError"]
     ELSE IF Len(segment) < 2 THEN s1
     ELSE IF Len(path) < 3 THEN s1
     ELSE IF s2.raised # NoError THEN s2
     ELSE IF onCanvas THEN [s2 EXCEPT !.canvas = s2.canvas \cup {path}]
     ELSE s2

RECURSIVE CommitLoop(_, _, _, _, _, _, _)
CommitLoop(s, i, path0, last_segment, onCanvas, using_undo_stack, permanent) ==
  IF i >= Len(path0) \/ s.raised # NoError THEN s
  ELSE CommitLoop(CommitSegment(s, i, path0[i + 1], last_segment, onCanvas,
                                using_undo_stack, permanent),
                  i + 1, path0, last_segment, onCanvas, using_undo_stack, permanent)

\* Turtle._commit(surface, using_undo_stack=, permanent=); onCanvas says that
\* surface is self._canvas (the committed layer), else it is the display
Turtle__commit(s, onCanvas, using_undo_stack, permanent) ==
  CommitLoop(s, 0, s.path, Len(s.path) - 1, onCanvas, using_undo_stack, permanent)

Turtle__new_path(s) ==
  LET c == Turtle__commit(s, TRUE, TRUE, FALSE)
  IN IF c.raised # NoError THEN c ELSE Pen__new_path(c)

Pen_penup(s) == Turtle__new_path([s EXCEPT !.pen_down = FALSE, !.penups = s.penups + 1])

\* a mark that leaves the redo stack alone
MarkKeepsRedo(s) ==
  Pen__mark([s EXCEPT !.marks = s.marks \cup {<<s.render_pos, s.penups>>}])

Turtle__mark(s) ==
  Pen__mark([s EXCEPT !.redo_path = <<>>,
                      !.marks = s.marks \cup {<<s.render_pos, s.penups>>}])

Turtle__clear(s) == [s EXCEPT !.canvas = {}, !.path = <<>>]

\* Turtle._dot: a 1x1 rectangle at the position, kept as a one-point stroke
Turtle__dot(s) == [s EXCEPT !.canvas = s.canvas \cup {<<s.render_pos>>}]

Turtle__render(s) ==
  IF s.raised # NoError THEN s ELSE Turtle__commit(s, FALSE, TRUE, FALSE)

\* ------------------------------------------------- Turtle._start_command
\* [arg() if isinstance(arg, _QueuedArgument) else arg for arg in args]:
\* pos[u] is the render position of turtle u at this moment
ResolveArg(arg, pos) == IF arg.k = "queued" THEN pos[arg.v][1] ELSE arg.v

ResolvedArgs(args, pos) == [n \in 1..Len(args) |-> ResolveArg(args[n], pos)]

RECURSIVE Evaluations(_, _)
Evaluations(args, pos) ==
  IF args = <<>> THEN <<>>
  ELSE (IF Head(args).k = "queued"
        THEN <<[lid |-> Head(args).lid, val |-> ResolveArg(Head(args), pos)]>>
        ELSE <<>>) \o Evaluations(Tail(args), pos)

\* func(self, *resolved_args) for func = _COMMAND_TABLE[func_id], or func_id
\* itself when it is callable
CallCommand(s, func_id, a) ==
  CASE func_id = CMD_NAVIGATOR_FORWARD -> Navigator_forward(s, a[1])
    [] func_id = CMD_NAVIGATOR_GOTO -> Navigator_goto(s, a[1], a[2])
    [] func_id = CMD_NAVIGATOR_TELEPORT -> Navigator_teleport(s, a[1], a[2])
    [] func_id = CMD_NAVIGATOR_LEFT -> Navigator_left(s, a[1])
    [] func_id = CMD_NAVIGATOR_RIGHT -> Navigator_right(s, a[1])
    [] func_id = CMD_NAVIGATOR_HOME -> Navigator_home(s)
    [] func_id = CMD_NAVIGATOR_SETX -> Navigator_setx(s, a[1])
    [] func_id = CMD_NAVIGATOR_SETY -> Navigator_sety(s, a[1])
    [] func_id = CMD_NAVIGATOR_SET_HEADING -> Navigator_set_heading(s, a[1])
    [] func_id = CMD_NAVIGATOR_HEAD_TOWARDS -> Navigator_head_towards(s, a[1], a[2])
    [] func_id = CMD_PEN_HIDE -> Pen_hide(s)
    [] func_id = CMD_PEN_SHOW -> Pen_show(s)
    [] func_id = CMD_PEN_PENUP -> Pen_penup(s)
    [] func_id = CMD_PEN_PENDOWN -> Pen_pendown(s)
    [] func_id = CMD_PEN_SET_SIZE -> Pen_set_size(s, a[1])
    [] func_id = CMD_PEN_SET_SPEED -> Pen_set_speed(s, a[1])
    [] func_id = CMD_PEN_SET_COLOR -> Pen_set_color(s, a)
    [] func_id = FUNC_TURTLE_CLEAR -> Turtle__clear(s)
    [] func_id = FUNC_TURTLE_DOT -> Turtle__dot(s)

Turtle__start_command(s, spec, pos) ==
  LET s1 == [s EXCEPT !.started = Append(s.started, spec),
                      !.evals = s.evals \o Evaluations(spec.args, pos)]
  IN CallCommand(s1, spec.id, ResolvedArgs(spec.args, pos))

\* a completion test that does not look at the remaining distance
CommandDoneAtOnce(s) == TRUE

\* Turtle._command_done: max(0.1, self.speed * 0.02) canvas units
Turtle__command_done(s) ==
  IF s.current_command # <<>>
     /\ s.current_command[1].id \in {CMD_NAVIGATOR_FORWARD, CMD_NAVIGATOR_GOTO}
  THEN VecAbs(VecSub(s.render_pos, s.target_pos)) <= Max(Unit \div 10, s.speed * (Unit \div 50))
  ELSE TRUE

\* -------------------------------------------------------- Turtle._update
\* the five statements of _update, each skipped once an exception is raised
\* a flatten that takes the whole most recent segment off the live path
FlattenAll(s) ==
  IF s.path # <<>> /\ Len(s.path[Len(s.path)]) > s.undo_stack
  THEN [s EXCEPT !.canvas = s.canvas \cup {s.path[Len(s.path)]},
                 !.path[Len(s.path)] = <<>>]
  ELSE s

UpdateFlatten(s) ==
  IF s.path # <<>> /\ Len(s.path[Len(s.path)]) > s.undo_stack
  THEN Turtle__commit(s, TRUE, FALSE, TRUE)
  ELSE s

\* a dispatcher that takes the newest tuple: pop() for popleft()
UpdateDequeueNewest(s, pos) ==
  IF s.raised # NoError THEN s
  ELSE IF s.current_command = <<>> /\ s.command_queue # <<>>
  THEN Turtle__start_command(
         [s EXCEPT !.current_command = <<s.command_queue[Len(s.command_queue)]>>,
                   !.command_queue =
                     SubSeq(s.command_queue, 1, Len(s.command_queue) - 1)],
         s.command_queue[Len(s.command_queue)], pos)
  ELSE s

\* a dispatcher that does not look at the active-command slot
UpdateDequeueAlways(s, pos) ==
  IF s.raised # NoError THEN s
  ELSE IF s.command_queue # <<>>
  THEN Turtle__start_command(
         [s EXCEPT !.current_command = <<Head(s.command_queue)>>,
                   !.command_queue = Tail(s.command_queue)],
         Head(s.command_queue), pos)
  ELSE s

UpdateDequeue(s, pos) ==
  IF s.raised # NoError THEN s
  ELSE IF s.current_command = <<>> /\ s.command_queue # <<>>
  THEN Turtle__start_command(
         [s EXCEPT !.current_command = <<Head(s.command_queue)>>,
                   !.command_queue = Tail(s.command_queue)],
         Head(s.command_queue), pos)
  ELSE s

UpdateMove(s, dtms) == IF s.raised # NoError THEN s ELSE Navigator__update(s, dtms)

UpdateDone(s) ==
  IF s.raised # NoError THEN s
  ELSE IF Turtle__command_done(s) THEN [s EXCEPT !.current_command = <<>>]
  ELSE s

UpdateMark(s) ==
  IF s.raised # NoError THEN s
  ELSE IF s.pen_down /\ s.render_pos # s.target_pos THEN Turtle__mark(s)
  ELSE s

Turtle__update(s, dtms, pos) ==
  UpdateMark(UpdateDone(UpdateMove(UpdateDequeue(UpdateFlatten(s), pos), dtms)))

\* ------------------------------------------------- undo, redo and reset
\* an undo that stores the popped point without bounding the stack
UndoUnbounded(s) ==
  IF s.path = <<>> \/ \A n \in 1..Len(s.path) : s.path[n] = <<>>
  THEN s
  ELSE LET last == s.path[Len(s.path)]
       IN IF last = <<>> THEN [s EXCEPT !.raised = "IndexError"]
          ELSE [s EXCEPT !.redo_path = Append(s.redo_path, last[Len(last)]),
                         !.path[Len(s.path)] = SubSeq(last, 1, Len(last) - 1)]

Turtle_undo(s) ==
  IF s.path = <<>> \/ \A n \in 1..Len(s.path) : s.path[n] = <<>>
  THEN IF s.command_queue # <<>>
       THEN [s EXCEPT !.redo_command =
                        Append(s.redo_command, s.command_queue[Len(s.command_queue)]),
                      !.command_queue =
                        SubSeq(s.command_queue, 1, Len(s.command_queue) - 1)]
       ELSE s
  ELSE IF Len(s.redo_path) >= s.undo_stack /\ s.redo_path = <<>>
  THEN [s EXCEPT !.raised = "IndexError"]
  ELSE LET kept == IF Len(s.redo_path) >= s.undo_stack THEN Tail(s.redo_path)
                   ELSE s.redo_path
           last == s.path[Len(s.path)]
       IN IF last = <<>> THEN [s EXCEPT !.redo_path = kept, !.raised = "IndexError"]
          ELSE [s EXCEPT !.redo_path = Append(kept, last[Len(last)]),
                         !.path[Len(s.path)] = SubSeq(last, 1, Len(last) - 1)]

\* a redo that puts the point back at the start of the segment
RedoPointFirst(s) ==
  IF s.redo_path = <<>> \/ s.path = <<>>
  THEN s
  ELSE [s EXCEPT !.path[Len(s.path)] =
                   <<s.redo_path[Len(s.redo_path)]>> \o s.path[Len(s.path)],
                 !.redo_path = SubSeq(s.redo_path, 1, Len(s.redo_path) - 1)]

\* a redo that puts the command back on the left end of the deque
RedoCommandLeft(s) ==
  IF s.redo_path = <<>> \/ s.path = <<>>
  THEN IF s.redo_command # <<>>
       THEN [s EXCEPT !.command_queue =
                        <<s.redo_command[Len(s.redo_command)]>> \o s.command_queue,
                      !.redo_command =
                        SubSeq(s.redo_command, 1, Len(s.redo_command) - 1)]
       ELSE s
  ELSE s

Turtle_redo(s) ==
  IF s.redo_path = <<>> \/ s.path = <<>>
  THEN IF s.redo_command # <<>>
       THEN [s EXCEPT !.command_queue =
                        Append(s.command_queue, s.redo_command[Len(s.redo_command)]),
                      !.redo_command =
                        SubSeq(s.redo_command, 1, Len(s.redo_command) - 1)]
       ELSE s
  ELSE [s EXCEPT !.path[Len(s.path)] =
                   Append(s.path[Len(s.path)], s.redo_path[Len(s.redo_path)]),
                 !.redo_path = SubSeq(s.redo_path, 1, Len(s.redo_path) - 1)]

\* reset without self._command_queue.clear()
ResetKeepsQueue(s) ==
  LET start == Vec2D((ScreenWidth * Unit) \div 2, (ScreenHeight * Unit) \div 2)
  IN Turtle__clear([s EXCEPT !.origin = start, !.target_pos = start, !.render_pos = start])

Turtle_reset(s) ==
  LET start == Vec2D((ScreenWidth * Unit) \div 2, (ScreenHeight * Unit) \div 2)
  IN Turtle__clear([s EXCEPT !.origin = start, !.target_pos = start,
                            !.render_pos = start, !.command_queue = <<>>])

\* --------------------------------------------- the public queueing calls
\* a call that pushes its tuple on the left end of the deque
EnqueueLeft(s, id, args) ==
  [s EXCEPT !.command_queue = <<Command(id, args)>> \o s.command_queue]

\* self._command_queue.append((id, *args))
Enqueue(s, id, args) ==
  [s EXCEPT !.command_queue = Append(s.command_queue, Command(id, args))]

Turtle_set_size(s, size) == Enqueue(s, CMD_PEN_SET_SIZE, <<size>>)
Turtle_set_speed(s, speed) == Enqueue(s, CMD_PEN_SET_SPEED, <<speed>>)
Turtle_set_color(s, args) == Enqueue(s, CMD_PEN_SET_COLOR, args)
Turtle_clear(s) == Enqueue(s, FUNC_TURTLE_CLEAR, <<>>)
Turtle_hide(s) == Enqueue(s, CMD_PEN_HIDE, <<>>)
Turtle_show(s) == Enqueue(s, CMD_PEN_SHOW, <<>>)
Turtle_penup(s) == Enqueue(s, CMD_PEN_PENUP, <<>>)
Turtle_pendown(s) == Enqueue(s, CMD_PEN_PENDOWN, <<>>)
Turtle_forward(s, distance) == Enqueue(s, CMD_NAVIGATOR_FORWARD, <<distance>>)
Turtle_teleport(s, x, y) == Enqueue(s, CMD_NAVIGATOR_TELEPORT, <<x, y>>)
Turtle_left(s, angle) == Enqueue(s, CMD_NAVIGATOR_LEFT, <<angle>>)
Turtle_right(s, angle) == Enqueue(s, CMD_NAVIGATOR_RIGHT, <<angle>>)
Turtle_home(s) == Enqueue(s, CMD_NAVIGATOR_HOME, <<>>)
Turtle_setx(s, x) == Enqueue(s, CMD_NAVIGATOR_SETX, <<x>>)
Turtle_sety(s, y) == Enqueue(s, CMD_NAVIGATOR_SETY, <<y>>)
Turtle_set_heading(s, angle) == Enqueue(s, CMD_NAVIGATOR_SET_HEADING, <<angle>>)
Turtle_head_towards(s, args) == Enqueue(s, CMD_NAVIGATOR_HEAD_TOWARDS, args)
Turtle_dot(s) == Enqueue(s, FUNC_TURTLE_DOT, <<>>)
Turtle_custom_command(s, id_or_func, args) == Enqueue(s, id_or_func, args)

\* math.pi, in thousandths
Pi1000 == 3142

\* Navigator.circle(self, queue, radius, steps, direction), steps given;
\* step_len is rounded down to a thousandth, turn to a whole degree
RECURSIVE CirclePairs(_, _, _, _)
CirclePairs(n, step_len, rotator, turn) ==
  IF n = 0 THEN <<>>
  ELSE <<Command(CMD_NAVIGATOR_FORWARD, <<Lit(step_len)>>),
         Command(rotator, <<Lit(turn)>>)>>
       \o CirclePairs(n - 1, step_len, rotator, turn)

\* steps = None: the parameter left at its default
None == -1

\* max(12, int(abs(radius) * math.pi / 4)); int() drops the fraction
DefaultSteps(radius) == Max(12, (IAbs(radius) * Pi1000) \div (4 * 1000 * Unit))

\* Navigator.circle with the direction checked after the appends
CircleValidatesLast(s, radius, steps0, direction) ==
  LET steps == IF steps0 = None THEN DefaultSteps(radius) ELSE steps0
      step_len == ((2 * Pi1000 * IAbs(radius)) \div 1000) \div steps
      rotator == IF direction = "left" THEN CMD_NAVIGATOR_LEFT ELSE CMD_NAVIGATOR_RIGHT
      appended == [s EXCEPT !.command_queue =
                     s.command_queue \o CirclePairs(steps, step_len, rotator, 360 \div steps)]
  IN IF steps = 0 THEN [s EXCEPT !.raised = "ZeroDivisionError"]
     ELSE IF direction \notin {"left", "right"}
          THEN [appended EXCEPT !.raised = "ValueError"]
          ELSE appended

Navigator_circle(s, radius, steps0, direction) ==
  LET steps == IF steps0 = None THEN DefaultSteps(radius) ELSE steps0
      circumference == (2 * Pi1000 * IAbs(radius)) \div 1000
      step_len == circumference \div steps
      turn0 == 360 \div steps
      turn == IF radius < 0 THEN -turn0 ELSE turn0
      rotator == IF direction = "left" THEN CMD_NAVIGATOR_LEFT ELSE CMD_NAVIGATOR_RIGHT
  IN IF steps = 0 THEN [s EXCEPT !.raised = "ZeroDivisionError"]
     ELSE IF direction \notin {"left", "right"} THEN [s EXCEPT !.raised = "ValueError"]
     ELSE [s EXCEPT !.command_queue =
             s.command_queue \o CirclePairs(steps, step_len, rotator, turn)]

Turtle_circle(s, radius, steps, direction) == Navigator_circle(s, radius, steps, direction)

\* ------------------------------------------------------------------ state
VARIABLES
  turtles,   \* the Turtle objects of Screen._turtles
  dt,        \* Screen.dt, milliseconds
  tick,      \* history: the number of frames run so far, modulo 2
  nav,       \* a Navigator on its own, in floats (SpecNav)
  left,      \* history: queueing calls the run may still make
  last,      \* history: the call made by the last step; full says that an
             \* undo found the redo-point stack holding undo_stack entries
  rewound,   \* history: rewound[t] once undo, redo or reset was called on t
  trip       \* history: the run of undo and redo calls in progress

vars == <<turtles, dt, tick, nav, left, last, rewound, trip>>

\* the arguments the calls are made with
Centre == Vec2D((ScreenWidth * Unit) \div 2, (ScreenHeight * Unit) \div 2)
Distances == {100 * Unit}
ShortDistance == 26 * Unit
XChoices == {350 * Unit}
YChoices == {Centre[2]}
Angles == {180}
Speeds == {0, 25}
Sizes == {3}
Radii == {0}
StepCounts == {2}
Directions == {"left", "right", "up"}
DefaultRadius == 24 * Unit
Colors == {<<Lit(255), Lit(0), Lit(0)>>, <<>>}   \* set_color(255, 0, 0), set_color()
DtChoices == {500, 1000}
UndoStacks == 0..MaxUndoStack

NoTrip == [t |-> 0, n |-> 0, u |-> 0, r |-> 0, seg |-> <<>>, redo0 |-> <<>>]

\* Navigator(speed) with its render position and target set, in floats
NavInit(x, y, u, v, speed) ==
  [render_pos |-> Vec2D(x, y), target_pos |-> Vec2D(u, v), speed |-> speed]

\* Screen(ScreenWidth, ScreenHeight), then a Turtle(undo_stack=depth) for
\* every turtle; calls is the number of queueing calls the run makes
InitWith(calls, depths) ==
  /\ \E depth \in depths : turtles = [t \in Turtles |-> TurtleInit(depth)]
  /\ dt = 0
  /\ tick = 0
  /\ nav = NavInit(0, 0, 0, 0, One)
  /\ left = calls
  /\ last = [op |-> "init", t |-> 0, full |-> FALSE]
  /\ rewound = [t \in Turtles |-> FALSE]
  /\ trip = NoTrip

Init == InitWith(MaxCalls, UndoStacks)

\* an uncaught exception ends the program
Running == \A t \in Turtles : turtles[t].raised = NoError

\* the tuples of queue not numbered yet (seq = 0) numbered n + 1, n + 2, ...
Numbered(queue, n) ==
  [i \in 1..Len(queue) |->
     IF queue[i].seq = 0
     THEN [queue[i] EXCEPT !.seq = n + Cardinality({j \in 1..i : queue[j].seq = 0})]
     ELSE queue[i]]

Unnumbered(queue) == Cardinality({j \in 1..Len(queue) : queue[j].seq = 0})

Stamp(s) ==
  [s EXCEPT !.command_queue = Numbered(s.command_queue, s.made),
            !.made = s.made + Unnumbered(s.command_queue)]

\* queue(lambda: turtles[src].position[0]), made for the next tuple of turtle t
Lazy(t, src) == Queued(src, turtles[t].made + 1)

\* turtle t answers a queueing call with the record s2
Call(t, op, s2) ==
  /\ Running
  /\ left > 0
  /\ turtles' = [turtles EXCEPT ![t] = Stamp(s2)]
  /\ left' = left - 1
  /\ last' = [op |-> op, t |-> t, full |-> FALSE]
  /\ trip' = NoTrip
  /\ UNCHANGED <<dt, tick, nav, rewound>>

Forward(t) == \E d \in Distances : Call(t, "forward", Turtle_forward(turtles[t], Lit(d)))

\* forward(26): at the default speed a frame of half a second leaves one unit
\* to go, which is within the completion tolerance
ShortForward(t) == Call(t, "forward", Turtle_forward(turtles[t], Lit(ShortDistance)))

Goto(t) ==
  \E x \in {Lit(v) : v \in XChoices} \cup {Lazy(t, u) : u \in Turtles}, y \in YChoices :
    Call(t, "goto", Turtle_goto(turtles[t], x, Lit(y)))

\* goto(queue(lambda: u.position[0]), 300) for a turtle u
LazyGoto(t) ==
  \E u \in Turtles :
    Call(t, "goto", Turtle_goto(turtles[t], Lazy(t, u), Lit(Centre[2])))

Teleport(t) ==
  \E x \in XChoices, y \in YChoices :
    Call(t, "teleport", Turtle_teleport(turtles[t], Lit(x), Lit(y)))

Left(t) == \E a \in Angles : Call(t, "left", Turtle_left(turtles[t], Lit(a)))

Right(t) == \E a \in Angles : Call(t, "right", Turtle_right(turtles[t], Lit(a)))

Home(t) == Call(t, "home", Turtle_home(turtles[t]))

SetX(t) == \E x \in XChoices : Call(t, "setx", Turtle_setx(turtles[t], Lit(x)))

SetY(t) == \E y \in YChoices : Call(t, "sety", Turtle_sety(turtles[t], Lit(y)))

SetHeading(t) ==
  \E a \in Angles : Call(t, "set_heading", Turtle_set_heading(turtles[t], Lit(a)))

HeadTowards(t) ==
  \E x \in XChoices, y \in YChoices :
    Call(t, "head_towards", Turtle_head_towards(turtles[t], <<Lit(x), Lit(y)>>))

Hide(t) == Call(t, "hide", Turtle_hide(turtles[t]))

Show(t) == Call(t, "show", Turtle_show(turtles[t]))

PenUp(t) == Call(t, "penup", Turtle_penup(turtles[t]))

PenDown(t) == Call(t, "pendown", Turtle_pendown(turtles[t]))

SetSize(t) == \E n \in Sizes : Call(t, "set_size", Turtle_set_size(turtles[t], Lit(n)))

SetSpeed(t) == \E v \in Speeds : Call(t, "set_speed", Turtle_set_speed(turtles[t], Lit(v)))

SetColor(t) == \E c \in Colors : Call(t, "set_color", Turtle_set_color(turtles[t], c))

Clear(t) == Call(t, "clear", Turtle_clear(turtles[t]))

Dot(t) == Call(t, "dot", Turtle_dot(turtles[t]))

Circle(t) ==
  \E radius \in Radii, steps \in StepCounts, direction \in Directions :
    Call(t, "circle", Turtle_circle(turtles[t], radius, steps, direction))

\* circle(24) and circle(24, direction="up"), steps left at the default
CircleDefault(t) ==
  \E direction \in Directions :
    Call(t, "circle", Turtle_circle(turtles[t], DefaultRadius, None, direction))

CustomCommand(t) ==
  \E id \in {CMD_PEN_HIDE, FUNC_TURTLE_DOT} :
    Call(t, "custom_command", Turtle_custom_command(turtles[t], id, <<>>))

LastSegment(s) == IF s.path = <<>> THEN <<>> ELSE s.path[Len(s.path)]

\* "path and any(path)": some segment of the live path holds a point
HasPoints(s) == \E n \in 1..Len(s.path) : s.path[n] # <<>>

Undo(t) ==
  LET s == turtles[t]
      n == Len(LastSegment(s))
  IN /\ Running
     /\ turtles' = [turtles EXCEPT ![t] = Turtle_undo(s)]
     /\ last' = [op |-> "undo", t |-> t,
                  full |-> HasPoints(s) /\ Len(s.redo_path) >= s.undo_stack]
     /\ rewound' = [rewound EXCEPT ![t] = TRUE]
     /\ LET goesOn == trip.t = t /\ trip.r = 0 /\ trip.u < trip.n
            begins == 1 <= n /\ n <= s.undo_stack
        IN trip' \in
             {[trip EXCEPT !.u = trip.u + 1] : x \in {1} \cap (IF goesOn THEN {1} ELSE {})}
             \cup {[t |-> t, n |-> n, u |-> 1, r |-> 0, seg |-> LastSegment(s),
                    redo0 |-> s.redo_path] : x \in {1} \cap (IF begins THEN {1} ELSE {})}
             \cup {NoTrip : x \in {1} \cap (IF goesOn \/ begins THEN {} ELSE {1})}
     /\ UNCHANGED <<dt, tick, nav, left>>

Redo(t) ==
  /\ Running
  /\ turtles' = [turtles EXCEPT ![t] = Turtle_redo(turtles[t])]
  /\ last' = [op |-> "redo", t |-> t, full |-> FALSE]
  /\ rewound' = [rewound EXCEPT ![t] = TRUE]
  /\ trip' = IF trip.t = t /\ trip.u = trip.n /\ trip.r < trip.n
             THEN [trip EXCEPT !.r = trip.r + 1]
             ELSE NoTrip
  /\ UNCHANGED <<dt, tick, nav, left>>

Reset(t) ==
  /\ Running
  /\ turtles' = [turtles EXCEPT ![t] = Turtle_reset(turtles[t])]
  /\ last' = [op |-> "reset", t |-> t, full |-> FALSE]
  /\ rewound' = [rewound EXCEPT ![t] = TRUE]
  /\ trip' = NoTrip
  /\ UNCHANGED <<dt, tick, nav, left>>

\* Screen.update: turtle._update() then turtle._render() for each turtle in
\* registration order, from turtle t on; an exception ends the loop.  ts is
\* the turtles as updated so far.
\* an update whose lazy arguments read the positions the frame began with
RECURSIVE UpdateFromSnapshot(_, _, _)
UpdateFromSnapshot(ts, t, dtms) ==
  IF t \notin Turtles THEN ts
  ELSE LET pos == [u \in Turtles |-> turtles[u].render_pos]
           s1 == Stamp(Turtle__render(Turtle__update(ts[t], dtms, pos)))
       IN IF s1.raised # NoError THEN [ts EXCEPT ![t] = s1]
          ELSE UpdateFromSnapshot([ts EXCEPT ![t] = s1], t + 1, dtms)

RECURSIVE UpdateFrom(_, _, _)
UpdateFrom(ts, t, dtms) ==
  IF t \notin Turtles THEN ts
  ELSE LET pos == [u \in Turtles |-> ts[u].render_pos]
           s1 == Stamp(Turtle__render(Turtle__update(ts[t], dtms, pos)))
       IN IF s1.raised # NoError THEN [ts EXCEPT ![t] = s1]
          ELSE UpdateFrom([ts EXCEPT ![t] = s1], t + 1, dtms)

Screen_update(ts, dtms) == UpdateFrom(ts, 1, dtms)

\* one turn of Screen.mainloop: tick() sets Screen.dt, update() runs the turtles
FrameDue == Running /\ \A t \in Turtles : Len(LastSegment(turtles[t])) <= MaxPoints

Frame ==
  \E d \in DtChoices :
    /\ FrameDue
    /\ dt' = d
    /\ tick' = 1 - tick
    /\ turtles' = Screen_update(turtles, d)
    /\ last' = [op |-> "frame", t |-> 0, full |-> FALSE]
    /\ trip' = NoTrip
    /\ UNCHANGED <<nav, left, rewound>>

Next ==
  \/ \E t \in Turtles :
       \/ Forward(t) \/ Goto(t) \/ Teleport(t) \/ Left(t) \/ Right(t) \/ Home(t)
       \/ SetX(t) \/ SetY(t) \/ SetHeading(t) \/ HeadTowards(t)
       \/ Hide(t) \/ Show(t) \/ PenUp(t) \/ PenDown(t)
       \/ SetSize(t) \/ SetSpeed(t) \/ SetColor(t) \/ Clear(t) \/ Dot(t)
       \/ Circle(t) \/ CustomCommand(t)
  \/ Frame

Spec == Init /\ [][Next]_vars

\* turtle 1 draws, and its strokes and queued commands are undone and redone
NextUndo == Forward(1) \/ Undo(1) \/ Redo(1) \/ Frame

SpecUndo == InitWith(UndoCalls, UndoStacks) /\ [][NextUndo]_vars

\* turtle 1 is sent forward again and again, at the default speed or another;
\* Screen.mainloop runs a frame after every frame, so frames never stop.  The
\* turtles keep an undo history (undo_stack >= 1): with none the live path
\* grows by a point a frame and the bound on its length would end the run.
NextForward == Forward(1) \/ ShortForward(1) \/ SetSpeed(1) \/ Frame

\* Frame is the one step that changes tick, so a step that changes tick when
\* a frame is due is a Frame step: weak fairness of it is weak fairness of
\* Frame, stated on the variable that every frame changes
NextTick == FrameDue /\ tick' = 1 - tick

SpecForward ==
  InitWith(ForwardCalls, 1..MaxUndoStack) /\ [][NextForward]_vars /\ WF_tick(NextTick)

\* two turtles, the first with forward(100) queued, whose goto arguments are
\* lazy reads of a turtle's position, with undo, redo and reset of the second
InitPair ==
  /\ \E depth \in UndoStacks :
       turtles = [t \in Turtles |->
                    IF t = 1
                    THEN Stamp(Turtle_forward(TurtleInit(depth), Lit(100 * Unit)))
                    ELSE TurtleInit(depth)]
  /\ dt = 0
  /\ tick = 0
  /\ nav = NavInit(0, 0, 0, 0, One)
  /\ left = PairCalls
  /\ last = [op |-> "forward", t |-> 1, full |-> FALSE]
  /\ rewound = [t \in Turtles |-> FALSE]
  /\ trip = NoTrip

NextPair ==
  \/ \E t \in Turtles : LazyGoto(t)
  \/ Undo(2) \/ Redo(2) \/ Reset(2)
  \/ Frame

SpecPair == InitPair /\ [][NextPair]_vars

\* turtle 1 is told to draw circles, with and without a step count and with a
\* good or a bad direction, and to go forward.  Frames run
\* while the headings are along an axis: the first turn of circle(24) is by
\* 20 degrees, and the moves after it are not followed.
AxialFrame == (\A t \in Turtles : turtles[t].heading % 90 = 0) /\ Frame

NextCircle == Circle(1) \/ CircleDefault(1) \/ Forward(1) \/ AxialFrame

SpecCircle == InitWith(CircleCalls, {1}) /\ [][NextCircle]_vars

\* the program forward(100); penup(); pendown(); forward(100) has been queued
\* for turtle 1; frames run, and strokes and queued commands are undone and
\* redone
InitPen ==
  /\ \E depth \in UndoStacks :
       turtles = [t \in Turtles |->
                    IF t = 1
                    THEN Stamp(Turtle_forward(
                           Stamp(Turtle_pendown(
                             Stamp(Turtle_penup(
                               Stamp(Turtle_forward(TurtleInit(depth),
                                                    Lit(100 * Unit))))))),
                           Lit(100 * Unit)))
                    ELSE TurtleInit(depth)]
  /\ dt = 0
  /\ tick = 0
  /\ nav = NavInit(0, 0, 0, 0, One)
  /\ left = 0
  /\ last = [op |-> "forward", t |-> 1, full |-> FALSE]
  /\ rewound = [t \in Turtles |-> FALSE]
  /\ trip = NoTrip

NextPen == Undo(1) \/ Redo(1) \/ Frame

SpecPen == InitPen /\ [][NextPen]_vars

\* turtle 1 has been sent forward(100); turtle 2 is fresh
InitStall ==
  /\ turtles = [t \in Turtles |->
                  IF t = 1
                  THEN Stamp(Turtle_forward(TurtleInit(1), Lit(100 * Unit)))
                  ELSE TurtleInit(1)]
  /\ dt = 0
  /\ tick = 0
  /\ nav = NavInit(0, 0, 0, 0, One)
  /\ left = StallCalls
  /\ last = [op |-> "forward", t |-> 1, full |-> FALSE]
  /\ rewound = [t \in Turtles |-> FALSE]
  /\ trip = NoTrip

\* turtle 2 is sent forward, has its speed set, to 0 or not, and is reset
NextStall == Forward(2) \/ SetSpeed(2) \/ Reset(2) \/ Frame

SpecStall == InitStall /\ [][NextStall]_vars

\* turtle 1 is sent forward(26), which its default speed completes one unit
\* short of the target, has its speed set and is sent home
NextTol == ShortForward(1) \/ SetSpeed(1) \/ Home(1) \/ Frame

SpecTol == InitWith(TolCalls, {1}) /\ [][NextTol]_vars

\* a Navigator anywhere on the grid, bound for anywhere on the grid, and
\* Navigator._update called on it with one dt after another
\* (coordinates 0 .. MaxCoord, speed 1 or 4, dt 0, 1/4, 1 or 8 seconds)
InitNav ==
  /\ turtles = [t \in Turtles |-> TurtleInit(0)]
  /\ dt = 0
  /\ tick = 0
  /\ \E x, y, u, v \in {c * One : c \in 0..MaxCoord}, speed \in {One, 4 * One} :
       nav = NavInit(x, y, u, v, speed)
  /\ left = 0
  /\ last = [op |-> "init", t |-> 0, full |-> FALSE]
  /\ rewound = [t \in Turtles |-> FALSE]
  /\ trip = NoTrip

NavUpdate ==
  \E d \in {0, One \div 4, One, 8 * One} :
    /\ nav' = FloatUpdate(nav, d)
    /\ dt' = d
    /\ last' = [op |-> "_update", t |-> 0, full |-> FALSE]
    /\ UNCHANGED <<turtles, tick, left, rewound, trip>>

NextNav == NavUpdate

SpecNav == InitNav /\ [][NextNav]_vars

\* a Navigator at (2, 0) bound for (3, 0), at speed 1 or at speed 1/128, next
\* to the turtles of a fresh program
InitProgress ==
  /\ turtles = [t \in Turtles |-> TurtleInit(1)]
  /\ dt = 0
  /\ tick = 0
  /\ \E speed \in {One, One \div 128} : nav = NavInit(2 * One, 0, 3 * One, 0, speed)
  /\ left = ProgressCalls
  /\ last = [op |-> "init", t |-> 0, full |-> FALSE]
  /\ rewound = [t \in Turtles |-> FALSE]
  /\ trip = NoTrip

\* a frame of dt ms, positive: Screen.update for the turtles, and
\* Navigator._update(dt / 1000) for the Navigator, in floats
NavFrame ==
  \E d \in DtChoices :
    /\ FrameDue
    /\ dt' = d
    /\ tick' = 1 - tick
    /\ turtles' = Screen_update(turtles, d)
    /\ nav' = FloatUpdate(nav, (d * One) \div 1000)
    /\ last' = [op |-> "frame", t |-> 0, full |-> FALSE]
    /\ trip' = NoTrip
    /\ UNCHANGED <<left, rewound>>

\* turtle 1 is sent forward and home, has its speed set and is reset; frames
\* never stop (NavFrame is the one step that changes tick)
NextProgress ==
  Forward(1) \/ Home(1) \/ SetSpeed(1) \/ Reset(1) \/ NavFrame

SpecProgress == InitProgress /\ [][NextProgress]_vars /\ WF_tick(NextTick)

\* ------------------------------------------------------------ properties
QueueingCalls ==
  {"forward", "goto", "teleport", "left", "right", "home", "setx", "sety",
   "set_heading", "head_towards", "hide", "show", "penup", "pendown",
   "set_size", "set_speed", "set_color", "clear", "dot", "circle",
   "custom_command"}

IsPrefix(a, b) == Len(a) <= Len(b) /\ SubSeq(b, 1, Len(a)) = a

\* every field of a turtle but its queue, the count of tuples made for it and
\* the exception of its last call
BesidesQueue(s) == [s EXCEPT !.command_queue = <<>>, !.made = 0, !.raised = NoError]

\* C1: a public motion/style call (the steps that use up one of the calls
\* left) only appends tuples to the tail of the called turtle's queue: the old
\* queue is a prefix of the new one, at least one tuple is added unless the
\* call raised, in which case the queue is as it was, and render position,
\* target, heading, speed, pen flag, visibility, colour, width, live path,
\* canvas, redo stacks and active command of that turtle, and the whole of
\* every other turtle, are unchanged.
CallOnlyAppends ==
  [][left' # left =>
       LET t == last'.t
           old == turtles[t]
           new == turtles'[t]
       IN /\ last'.op \in QueueingCalls
          /\ IsPrefix(old.command_queue, new.command_queue)
          /\ IF new.raised = NoError
             THEN Len(new.command_queue) > Len(old.command_queue)
             ELSE new.command_queue = old.command_queue
          /\ BesidesQueue(new) = BesidesQueue(old)
          /\ \A u \in Turtles \ {t} : turtles'[u] = turtles[u]]_vars

\* a call has just been made on a turtle that is in the middle of a move, with
\* points on its live path and a tuple already waiting
CalledWhileMoving ==
  /\ last.op \in QueueingCalls
  /\ LET s == turtles[last.t]
     IN /\ s.current_command # <<>>
        /\ s.render_pos # s.target_pos
        /\ LastSegment(s) # <<>>
        /\ Len(s.command_queue) >= 2

\* the seq of every tuple of a sequence of tuples
Seqs(cmds) == [n \in 1..Len(cmds) |-> cmds[n].seq]

\* C2: with no undo, redo or reset, the tuples of a turtle are started in the
\* order they were made: after every step the tuples started so far, followed
\* by the tuples still queued, are the tuples 1, 2, .. made for the turtle in
\* that order, and one frame starts at most one of them.
StartedInQueueOrder ==
  [][\A t \in Turtles :
       LET new == turtles'[t]
       IN /\ Seqs(new.started \o new.command_queue) = [n \in 1..new.made |-> n]
          /\ Len(new.started) <= Len(turtles[t].started) + 1]_vars

\* three tuples of one turtle were started, in three frames, one is waiting
ThreeStarted ==
  \E t \in Turtles :
    /\ Len(turtles[t].started) >= 3
    /\ turtles[t].command_queue # <<>>
    /\ ~rewound[t]

\* the tuple of the first forward(100) made for a turtle
Forward100 == [Command(CMD_NAVIGATOR_FORWARD, <<Lit(100 * Unit)>>) EXCEPT !.seq = 1]

\* a new turtle (centre, speed 50, heading 0) with forward(100) queued
FreshWithForward100(s) ==
  s = [TurtleInit(s.undo_stack) EXCEPT !.command_queue = <<Forward100>>, !.made = 1]

\* that turtle one frame of one second later
HalfWay(s) ==
  /\ s.render_pos = VecAdd(Centre, Vec2D(50 * Unit, 0))
  /\ s.target_pos = VecAdd(Centre, Vec2D(100 * Unit, 0))
  /\ s.current_command = <<Forward100>>
  /\ s.command_queue = <<>>
  /\ s.speed = 50 /\ s.heading = 0

\* C7: a turtle at the centre with speed 50, heading 0 and forward(100)
\* queued: a frame of one second takes it 50 units along +x, y unchanged,
\* the command still active; a second frame of one second takes it from there
\* onto the target, 100 units from the centre, and clears the active command
\* (frames that no turtle's command ends with an exception).
TwoFramesOfOneSecond ==
  [][last'.op = "frame" /\ dt' = 1000 /\ Running' =>
       \A t \in Turtles :
         /\ FreshWithForward100(turtles[t]) => HalfWay(turtles'[t])
         /\ HalfWay(turtles[t]) =>
              /\ turtles'[t].render_pos = VecAdd(Centre, Vec2D(100 * Unit, 0))
              /\ turtles'[t].render_pos = turtles'[t].target_pos
              /\ turtles'[t].current_command = <<>>]_vars

\* the state two frames of one second after forward(100): the one point
\* recorded is the half-way point, the turtle is on its target, no command
ArrivedInTwoFrames ==
  \E t \in Turtles :
    /\ last.op = "frame" /\ dt = 1000
    /\ turtles[t].started = <<Forward100>>
    /\ turtles[t].path = << <<VecAdd(Centre, Vec2D(50 * Unit, 0))>> >>
    /\ turtles[t].render_pos = VecAdd(Centre, Vec2D(100 * Unit, 0))
    /\ turtles[t].current_command = <<>>
    /\ turtles[t].command_queue = <<>>

\* C3 (as amended): if the last segment holds N points, 1 <= N <= undo_stack,
\* then N calls of undo followed by N calls of redo, with no frame in between,
\* leave the segment with the points it had, in the order it had them, and
\* leave the redo-point stack empty if it was empty before the first undo.
UndoRedoRoundTrip ==
  trip.t # 0 /\ trip.u = trip.n /\ trip.r = trip.n =>
    /\ LastSegment(turtles[trip.t]) = trip.seg
    /\ trip.redo0 = <<>> => turtles[trip.t].redo_path = <<>>

\* C3 as stated: the same round trip always leaves the redo-point stack empty
UndoRedoRoundTripEmptiesStack ==
  trip.t # 0 /\ trip.u = trip.n /\ trip.r = trip.n =>
    /\ LastSegment(turtles[trip.t]) = trip.seg
    /\ turtles[trip.t].redo_path = <<>>

\* two points were undone and both redone
RoundTripOfTwo == trip.t # 0 /\ trip.n = 2 /\ trip.u = 2 /\ trip.r = 2

\* C4 as stated: whatever undo_stack is, no call of undo raises
UndoNeverRaises == last.op = "undo" => turtles[last.t].raised = NoError

\* C5: the redo-point stack never holds more than undo_stack entries, and an
\* undo that pops a point while the stack holds undo_stack entries drops the
\* entry at the front and stores the popped point at the back.
RedoPathBounded ==
  [][\A t \in Turtles :
       LET old == turtles[t]
           new == turtles'[t]
       IN /\ Len(new.redo_path) <= new.undo_stack
          /\ last'.op = "undo" /\ last'.t = t /\ last'.full /\ new.raised = NoError =>
               /\ new.redo_path =
                    Append(Tail(old.redo_path), LastSegment(old)[Len(LastSegment(old))])
               /\ LastSegment(new) =
                    SubSeq(LastSegment(old), 1, Len(LastSegment(old)) - 1)]_vars

\* an undo has popped a point onto a full redo-point stack
UndoEvicted ==
  /\ last.op = "undo" /\ last.full
  /\ turtles[last.t].raised = NoError
  /\ turtles[last.t].redo_path # <<>>

\* redo takes its command branch and has a command to put back
RedoesCommand(s) == (s.redo_path = <<>> \/ s.path = <<>>) /\ s.redo_command # <<>>

\* C6 (as amended): a redo that takes its command branch moves the command
\* undone last onto the tail of the queue, the end undo took it from, behind
\* every tuple still queued, so it is started after all of them.
RedoAppendsCommand ==
  [][last'.op = "redo" /\ RedoesCommand(turtles[last'.t]) =>
       LET old == turtles[last'.t]
           new == turtles'[last'.t]
       IN /\ new.command_queue =
               Append(old.command_queue, old.redo_command[Len(old.redo_command)])
          /\ new.redo_command = SubSeq(old.redo_command, 1, Len(old.redo_command) - 1)]_vars

\* C6 as stated: the command is put on the front of the queue, the end the
\* dispatcher takes from, ahead of every tuple still queued
RedoPutsCommandFirst ==
  [][last'.op = "redo" /\ RedoesCommand(turtles[last'.t]) =>
       LET old == turtles[last'.t]
           new == turtles'[last'.t]
       IN /\ new.command_queue =
               <<old.redo_command[Len(old.redo_command)]>> \o old.command_queue
          /\ new.redo_command = SubSeq(old.redo_command, 1, Len(old.redo_command) - 1)]_vars

\* a redo has put an undone command back behind a tuple made after it
RedoneBehindLater ==
  /\ last.op = "redo"
  /\ LET q == turtles[last.t].command_queue
     IN Len(q) >= 2 /\ q[Len(q)].seq < q[Len(q) - 1].seq

\* the sum of the distances of the forward tuples of a sequence of tuples
RECURSIVE SumForward(_)
SumForward(cmds) ==
  IF cmds = <<>> THEN 0
  ELSE (IF Head(cmds).id = CMD_NAVIGATOR_FORWARD THEN Head(cmds).args[1].v ELSE 0)
       + SumForward(Tail(cmds))

\* only forward and set_speed were started: the heading is as it began
OnlyForwardStarted(s) ==
  \A n \in 1..Len(s.started) :
    s.started[n].id \in {CMD_NAVIGATOR_FORWARD, CMD_PEN_SET_SPEED}

RECURSIVE LazyArgs(_)
LazyArgs(cmds) ==
  IF cmds = <<>> THEN <<>>
  ELSE SelectSeq(Head(cmds).args, LAMBDA a : a.k = "queued") \o LazyArgs(Tail(cmds))

\* C10: a _QueuedArgument is evaluated once, when the frame starts the tuple
\* that owns it, and at no other time: the evaluations made for a turtle are
\* those of the lazy arguments of the tuples started so far, one each and in
\* order (so none for a tuple that undo or reset took away, none at the call
\* that queued it); and the value is the render position the turtle read has
\* when the tuple starts: as already updated in this frame if that turtle was
\* registered earlier, as the frame found it otherwise.
LazyEvaluatedAtStart ==
  [][\A t \in Turtles :
       LET old == turtles[t]
           new == turtles'[t]
           args == LazyArgs(new.started)
           fresh == LazyArgs(<<new.started[Len(new.started)]>>)
       IN /\ Len(new.evals) = Len(args)
          /\ \A n \in 1..Len(args) : new.evals[n].lid = args[n].lid
          /\ IsPrefix(old.evals, new.evals)
          /\ new.evals # old.evals =>
               /\ last'.op = "frame"
               /\ Len(new.started) = Len(old.started) + 1
               /\ Len(new.evals) = Len(old.evals) + Len(fresh)
               /\ \A n \in 1..Len(fresh) :
                    new.evals[Len(old.evals) + n].val =
                      IF fresh[n].v < t THEN turtles'[fresh[n].v].render_pos[1]
                      ELSE turtles[fresh[n].v].render_pos[1]]_vars

\* turtle 2 started a goto whose lazy argument read the position turtle 1 had
\* moved to in the same frame, after undo had taken away another goto of
\* turtle 2 whose lazy argument was therefore not evaluated
LazyReadMovedTurtle ==
  /\ Len(turtles[2].evals) = 1
  /\ turtles[2].evals[1].val # Centre[1]
  /\ turtles[2].started[1].args[1] = Queued(1, 1)
  /\ LazyArgs(turtles[2].redo_command) # <<>>

\* v lies between a and b
Between(v, a, b) == (a <= v /\ v <= b) \/ (b <= v /\ v <= a)

\* C8 as stated: a call of Navigator._update with speed > 0 and dt >= 0 never
\* takes the render position past the target, never increases the remaining
\* distance, puts the render position on the target exactly when the
\* remaining distance is at most speed * dt, and changes nothing when the
\* remaining distance is zero.
UpdateArrivesExactly ==
  [][last'.op = "_update" =>
       LET old == nav.render_pos
           new == nav'.render_pos
           goal == nav.target_pos
           dist == FHypot(FSub(goal[1], old[1]), FSub(goal[2], old[2]))
           dist2 == FHypot(FSub(goal[1], new[1]), FSub(goal[2], new[2]))
       IN /\ nav'.target_pos = goal
          /\ Between(new[1], old[1], goal[1]) /\ Between(new[2], old[2], goal[2])
          /\ dist2 <= dist
          /\ dist <= FMul(nav.speed, dt') => new = goal
          /\ dist = 0 => new = old]_vars

\* C11 as stated: set_color called with no colour arguments raises
\* ValueError at the call and appends nothing to the command queue, and no
\* frame raises ValueError from a set_color command it starts.
SetColorRejectedAtCall ==
  [][\A t \in Turtles :
       /\ (/\ last'.op = "set_color" /\ last'.t = t
           /\ turtles'[t] = Stamp(Turtle_set_color(turtles[t], <<>>)))
            => /\ turtles'[t].raised = "ValueError"
               /\ turtles'[t].command_queue = turtles[t].command_queue
       /\ (last'.op = "frame" /\ turtles'[t].raised = "ValueError")
            => \/ turtles'[t].started = <<>>
               \/ turtles'[t].started[Len(turtles'[t].started)].id # CMD_PEN_SET_COLOR]_vars

\* new is old with n forward/turn pairs appended, the turns by command rotator
PairsAppended(old, new, n, rotator) ==
  /\ Len(new) = Len(old) + 2 * n
  /\ IsPrefix(old, new)
  /\ \A k \in 1..n :
       /\ new[Len(old) + 2 * k - 1].id = CMD_NAVIGATOR_FORWARD
       /\ new[Len(old) + 2 * k].id = rotator

\* C12: circle(radius, steps, direction) with a direction other than "left"
\* and "right" raises ValueError at the call and leaves the command queue as
\* it was; with "left" or "right" it appends exactly steps pairs of a forward
\* and a turn command; in both cases nothing is started and nothing else of
\* the turtle changes.
CircleValidatesDirection ==
  [][\A t \in Turtles, radius \in Radii, steps \in StepCounts, d \in Directions :
       (/\ last'.op = "circle" /\ last'.t = t
        /\ turtles'[t] = Stamp(Turtle_circle(turtles[t], radius, steps, d)))
       => LET old == turtles[t]
              new == turtles'[t]
          IN /\ BesidesQueue(new) = BesidesQueue(old)
             /\ IF d \in {"left", "right"}
                THEN /\ new.raised = NoError
                     /\ PairsAppended(old.command_queue, new.command_queue, steps,
                                      IF d = "left" THEN CMD_NAVIGATOR_LEFT
                                      ELSE CMD_NAVIGATOR_RIGHT)
                ELSE /\ new.raised = "ValueError"
                     /\ new.command_queue = old.command_queue]_vars

\* a circle call with a bad direction has raised with commands in the queue
CircleRejectedWithQueue ==
  /\ last.op = "circle"
  /\ turtles[1].raised = "ValueError"
  /\ Len(turtles[1].command_queue) >= 2

\* max(12, round(pi * |radius| / 4))
RoundedSteps(radius) ==
  Max(12, (IAbs(radius) * Pi1000 + 2 * 1000 * Unit) \div (4 * 1000 * Unit))

\* C13 as stated: circle(radius=24) with default steps appends exactly
\* max(12, round(pi * 24 / 4)) = 19 forward/turn pairs.
DefaultCircleAppendsRounded ==
  [][\A t \in Turtles, d \in {"left", "right"} :
       (/\ last'.op = "circle" /\ last'.t = t
        /\ turtles'[t] = Stamp(Turtle_circle(turtles[t], DefaultRadius, None, d)))
       => Len(turtles'[t].command_queue)
            = Len(turtles[t].command_queue) + 2 * RoundedSteps(DefaultRadius)]_vars

\* nothing queued, the turtle at home in the centre, no live point
AtRest(s) ==
  /\ s.command_queue = <<>>
  /\ s.origin = Centre /\ s.target_pos = Centre /\ s.render_pos = Centre
  /\ ~HasPoints(s)

\* C14: reset does not raise and leaves the turtle with an empty command
\* queue, render position = target position = home = canvas centre and no live
\* point, whatever it was doing; every frame run on a turtle in that state
\* leaves it in that state, moves nothing, records no point and starts no
\* command.
ResetCancelsPending ==
  [][/\ last'.op = "reset"
        => AtRest(turtles'[last'.t]) /\ turtles'[last'.t].raised = NoError
     /\ \A t \in Turtles :
          (last'.op = "frame" /\ AtRest(turtles[t]))
          => /\ AtRest(turtles'[t])
             /\ turtles'[t].path = turtles[t].path
             /\ turtles'[t].started = turtles[t].started
             /\ turtles'[t].raised = NoError]_vars

\* reset has just been called on turtle 2 while its goto was in flight (the
\* active-command slot still holds it) and a second command was queued
ResetInFlight ==
  /\ last.op = "reset" /\ last.t = 2
  /\ AtRest(turtles[2])
  /\ turtles[2].current_command # <<>>
  /\ Len(turtles[2].started) = 1
  /\ turtles[2].made = 2
  /\ turtles[2].redo_command = <<>>

\* C15: in a frame a turtle starts at most one command, the head of its
\* queue, and only if its active-command slot was empty; after a frame that
\* raised nothing the slot holds a command only if that command is a forward
\* or goto whose remaining distance exceeds the completion tolerance, so every
\* other command has left the slot in the frame that started it.
OneCommandAtATime ==
  [][last'.op = "frame" =>
       \A t \in Turtles :
         LET old == turtles[t]
             new == turtles'[t]
         IN /\ Len(new.started) <= Len(old.started) + 1
            /\ Len(new.started) > Len(old.started)
                 => /\ old.current_command = <<>>
                    /\ old.command_queue # <<>>
                    /\ new.started = Append(old.started, Head(old.command_queue))
                    /\ IsPrefix(Tail(old.command_queue), new.command_queue)
            /\ (Running' /\ new.current_command # <<>>)
                 => /\ new.current_command[1].id
                         \in {CMD_NAVIGATOR_FORWARD, CMD_NAVIGATOR_GOTO}
                    /\ new.current_command[1] = new.started[Len(new.started)]
                    /\ VecAbs(VecSub(new.target_pos, new.render_pos))
                         > Max(Unit \div 10, new.speed * (Unit \div 50))]_vars

\* two frames have run, turtle 1 is still on its first command, a forward, and
\* the command called after it waits in the queue
SecondCommandWaits ==
  /\ last.op = "frame" /\ tick = 0
  /\ turtles[1].current_command # <<>>
  /\ turtles[1].current_command[1].id = CMD_NAVIGATOR_FORWARD
  /\ Len(turtles[1].started) = 1
  /\ Len(turtles[1].command_queue) = 1

\* the pen-down intervals in which point p was marked, each named by the
\* number of penup commands executed before it
Intervals(s, p) == {m[2] : m \in {k \in s.marks : k[1] = p}}

\* C16 as stated: every segment of the live path holds only points recorded
\* in one pen-down interval: no two points of a segment are such that no
\* interval recorded them both, whatever commands, frames, undo and redo
\* calls came before.
SegmentWithinOnePenDown ==
  \A t \in Turtles :
    \A n \in 1..Len(turtles[t].path) :
      \A i, j \in 1..Len(turtles[t].path[n]) :
        Intervals(turtles[t], turtles[t].path[n][i])
          \cap Intervals(turtles[t], turtles[t].path[n][j]) # {}

\* C17 as stated: _commit(canvas, using_undo_stack=True, permanent=True) on a
\* turtle whose most recent segment holds at least 3 points raises nothing
\* and leaves no live point in that segment.
FullCommitLeavesNoPoint ==
  \A t \in Turtles :
    Len(LastSegment(turtles[t])) >= 3
    => LET c == Turtle__commit(turtles[t], TRUE, TRUE, TRUE)
       IN c.raised = NoError /\ LastSegment(c) = <<>>

\* the last w entries of seq
Suffix(seq, w) == SubSeq(seq, Len(seq) - w + 1, Len(seq))

\* C18: a frame in which the pen of a turtle stays down leaves the most
\* recent min(n, undo_stack) points of its current segment live and in the
\* order they were recorded, n counting the points the segment held before
\* the frame and the point the frame marks; and with undo_stack >= 1 an undo
\* call on a segment that holds a point removes exactly its latest point and
\* stores it on the redo stack.
UndoWindowKept ==
  [][\A t \in Turtles :
       LET old == turtles[t]
           new == turtles'[t]
           seg == LastSegment(old)
           seg2 == LastSegment(new)
       IN /\ (/\ last'.op = "frame"
              /\ old.pen_down /\ new.pen_down /\ new.penups = old.penups)
             => LET recorded == IF new.render_pos # new.target_pos
                                THEN Append(seg, new.render_pos) ELSE seg
                    w == Min(Len(recorded), new.undo_stack)
                IN /\ Len(seg2) >= w
                   /\ Suffix(seg2, w) = Suffix(recorded, w)
          /\ (/\ last'.op = "undo" /\ last'.t = t
              /\ old.undo_stack >= 1 /\ seg # <<>>)
             => /\ new.raised = NoError
                /\ seg2 = SubSeq(seg, 1, Len(seg) - 1)
                /\ new.redo_path # <<>>
                /\ new.redo_path[Len(new.redo_path)] = seg[Len(seg)]]_vars

\* with undo_stack = 2 the flatten has drawn points onto the canvas, and two
\* undo calls in a row have then taken the two latest points
TwoUndoneAfterFlatten ==
  /\ last.op = "undo"
  /\ turtles[1].undo_stack = 2
  /\ turtles[1].canvas # {}
  /\ trip.t = 1 /\ trip.u = 2
  /\ Len(turtles[1].redo_path) = 2

\* C19 as stated: for every undo_stack >= 0 the number of points in the live
\* most recent segment is bounded by a constant that depends on undo_stack
\* only; the constant is undo_stack + 3, the bound the flatten of each frame
\* keeps for undo_stack >= 1.
LivePointsBounded ==
  \A t \in Turtles :
    Len(LastSegment(turtles[t])) <= turtles[t].undo_stack + 3

Range(seq) == {seq[n] : n \in 1..Len(seq)}

\* C20: after a frame in which a turtle recorded a point (no exception, pen
\* down, render position off the target) its redo-point stack is empty, a
\* redo call made then leaves the path as it is, the frame has not changed
\* the redo-command stack and has taken at most the head off the command
\* queue; and _mark itself changes neither queue nor redo-command stack.
MarkEmptiesRedoPath ==
  [][\A t \in Turtles :
       LET old == turtles[t]
           new == turtles'[t]
       IN (/\ last'.op = "frame" /\ Running'
           /\ new.pen_down /\ new.render_pos # new.target_pos)
          => /\ new.redo_path = <<>>
             /\ Turtle_redo(new).path = new.path
             /\ new.redo_command = old.redo_command
             /\ \/ new.command_queue = old.command_queue
                \/ /\ old.command_queue # <<>>
                   /\ IsPrefix(Tail(old.command_queue), new.command_queue)
             /\ Turtle__mark(old).command_queue = old.command_queue
             /\ Turtle__mark(old).redo_command = old.redo_command
             /\ Turtle__mark(old).redo_path = <<>>]_vars

\* a frame has recorded a point for turtle 1 and a point undone before it is
\* gone: it is neither live, nor drawn, nor on the redo stack
MarkDroppedUndonePoint ==
  /\ last.op = "frame"
  /\ turtles[1].undo_stack >= 1
  /\ turtles[1].pen_down /\ turtles[1].render_pos # turtles[1].target_pos
  /\ turtles[1].redo_path = <<>>
  /\ \E m \in turtles[1].marks :
       /\ m[1] \notin Range(LastSegment(turtles[1]))
       /\ \A line \in turtles[1].canvas : m[1] \notin Range(line)

\* the distance left to the target exceeds max(0.1, speed * 0.02)
OutOfTolerance(s) ==
  VecAbs(VecSub(s.target_pos, s.render_pos)) > Max(Unit \div 10, s.speed * (Unit \div 50))

\* a forward or goto is active at speed 0 with more than the tolerance to go
Stalled(s) ==
  /\ s.current_command # <<>>
  /\ s.current_command[1].id \in {CMD_NAVIGATOR_FORWARD, CMD_NAVIGATOR_GOTO}
  /\ s.speed = 0
  /\ OutOfTolerance(s)

\* C21: a turtle stalled at speed 0 stays stalled through every step other
\* than a reset of it: its render position, its active command and the
\* commands it has started do not change; and in a frame that no exception
\* ends, every other turtle that has a positive speed and is off its target
\* moves.
ZeroSpeedStalls ==
  [][\A t \in Turtles :
       (Stalled(turtles[t]) /\ ~(last'.op = "reset" /\ last'.t = t))
       => /\ Stalled(turtles'[t])
          /\ turtles'[t].render_pos = turtles[t].render_pos
          /\ turtles'[t].current_command = turtles[t].current_command
          /\ turtles'[t].started = turtles[t].started
          /\ \A u \in Turtles \ {t} :
               (/\ last'.op = "frame" /\ dt' > 0 /\ Running'
                /\ turtles[u].speed > 0
                /\ turtles[u].render_pos # turtles[u].target_pos)
               => turtles'[u].render_pos # turtles[u].render_pos]_vars

\* turtle 2 has stood still at speed 0 through two frames with a command
\* waiting behind its forward, while turtle 1 has moved
StalledWhileOtherMoves ==
  /\ last.op = "frame"
  /\ Stalled(turtles[2])
  /\ Len(LastSegment(turtles[2])) >= 2
  /\ turtles[2].command_queue # <<>>
  /\ turtles[1].render_pos # Centre

\* a set_speed command was started after the last forward or goto started
SpeedSetSinceMove(started) ==
  \E n \in 1..Len(started) :
    /\ started[n].id = CMD_PEN_SET_SPEED
    /\ \A k \in (n + 1)..Len(started) :
         started[k].id \notin {CMD_NAVIGATOR_FORWARD, CMD_NAVIGATOR_GOTO}

\* C22 (as amended): in every frame in which a turtle starts a command, and
\* no set_speed was started since its last forward or goto, the distance from
\* the render position to the target position at the start of the frame is at
\* most max(0.1, speed * 0.02).
NoStartInFlight ==
  [][last'.op = "frame" =>
       \A t \in Turtles :
         (/\ Len(turtles'[t].started) > Len(turtles[t].started)
          /\ ~SpeedSetSinceMove(turtles[t].started))
         => ~OutOfTolerance(turtles[t])]_vars

\* turtle 1 started a forward, then home, then one command more
StartedAfterHome ==
  /\ last.op = "frame"
  /\ Len(turtles[1].started) >= 3
  /\ turtles[1].started[1].id = CMD_NAVIGATOR_FORWARD
  /\ turtles[1].started[2].id = CMD_NAVIGATOR_HOME

\* C22 as stated: in every frame in which a turtle starts a command the
\* distance from the render position to the target position at the start of
\* the frame is at most max(0.1, speed * 0.02), whatever was started before.
NoStartOutOfTolerance ==
  [][last'.op = "frame" =>
       \A t \in Turtles :
         Len(turtles'[t].started) > Len(turtles[t].started)
         => ~OutOfTolerance(turtles[t])]_vars

\* nothing is left to do: the queue of every turtle is empty and its slot
\* clear, every tuple made for a turtle that saw no undo or reset has been
\* started, and the Navigator is within max(0.1, speed * 0.02) of its target
AllDone ==
  /\ \A t \in Turtles :
       /\ turtles[t].command_queue = <<>>
       /\ turtles[t].current_command = <<>>
       /\ ~rewound[t] => Seqs(turtles[t].started) = [n \in 1..turtles[t].made |-> n]
  /\ FHypot(FSub(nav.target_pos[1], nav.render_pos[1]),
            FSub(nav.target_pos[2], nav.render_pos[2]))
       <= Max(One \div 10, FMul(nav.speed, One \div 50))

\* the speeds are positive and no exception was raised
PositiveSpeeds ==
  /\ Running
  /\ nav.speed > 0
  /\ \A t \in Turtles : turtles[t].speed > 0

\* the step of a frame is not lost when the float sum is rounded
StepNotAbsorbed ==
  \/ nav.render_pos = nav.target_pos
  \/ \A d \in DtChoices :
       FloatUpdate(nav, (d * One) \div 1000).render_pos # nav.render_pos

\* C23 (as amended): with frames of positive dt going on and finitely many
\* calls, if the speeds stay positive, no exception is raised and the step
\* speed * dt is never lost in the rounding of render + direction * step,
\* then in the end every queue is empty for good with the slot clear, every
\* tuple not taken away by undo or reset was started, and the last move has
\* come within the completion tolerance of its target.
QueueProgress ==
  ([]PositiveSpeeds /\ []StepNotAbsorbed) => <>[]AllDone

\* turtle 1 has finished a forward and one command more and the Navigator has
\* gone from (2, 0) to its target
QueueDrained ==
  /\ AllDone
  /\ Len(turtles[1].started) >= 2
  /\ turtles[1].started[1].id = CMD_NAVIGATOR_FORWARD
  /\ turtles[1].render_pos # Centre
  /\ nav.render_pos = nav.target_pos

\* C23 as stated: the same whenever the speeds stay positive and no exception
\* is raised, however small the step
QueueProgressAtAnyPositiveSpeed ==
  []PositiveSpeeds => <>[]AllDone

\* C24 as stated: after a frame, for a turtle whose pen was never lifted and
\* that saw no undo, redo or reset, if the command started last is a forward
\* or goto that has left the slot after recording points on its way and the
\* render position is the target position, then the last point of the most
\* recent live segment is that target position.
StrokeEndsOnTarget ==
  \A t \in Turtles :
    LET s == turtles[t]
    IN (/\ last.op = "frame" /\ Running
        /\ ~rewound[t]
        /\ s.pen_down /\ s.penups = 0
        /\ s.started # <<>>
        /\ s.started[Len(s.started)].id \in {CMD_NAVIGATOR_FORWARD, CMD_NAVIGATOR_GOTO}
        /\ s.current_command = <<>>
        /\ s.marks # {}
        /\ s.render_pos = s.target_pos)
       => /\ LastSegment(s) # <<>>
          /\ LastSegment(s)[Len(LastSegment(s))] = s.target_pos

\* p and q are neighbours, in this order, in the sequence of points
Neighbours(p, q, points) ==
  \E n \in 1..(Len(points) - 1) : points[n] = p /\ points[n + 1] = q

\* C25 as stated: over every frame that raises nothing and starts no clear
\* command, for a turtle that saw no undo, redo or reset, every two
\* neighbouring points of a live segment, whatever its length, are after the
\* frame still neighbours in a live segment or neighbours in a polyline drawn
\* onto the committed layer.
NoStrokeLost ==
  [][last'.op = "frame" =>
       \A t \in Turtles :
         LET old == turtles[t]
             new == turtles'[t]
         IN (/\ Running' /\ ~rewound[t]
             /\ \/ new.started = old.started
                \/ new.started[Len(new.started)].id # FUNC_TURTLE_CLEAR)
            => \A i \in 1..Len(old.path) :
                 \A n \in 1..(Len(old.path[i]) - 1) :
                   \/ \E j \in 1..Len(new.path) :
                        Neighbours(old.path[i][n], old.path[i][n + 1], new.path[j])
                   \/ \E line \in new.canvas :
                        Neighbours(old.path[i][n], old.path[i][n + 1], line)]_vars

====
